---- MODULE Spec2Model ----
(***************************************************************************)
(* Library repository and hot-reload subsystem of CQL Services             *)
(* (src/lib/libraries-loader.js): the versioned in-memory store            *)
(* (class Libraries), the directory loader (load), the staleness monitor   *)
(* (checkAndReloadIfNeeded) and the module state they share.               *)
(***************************************************************************)
EXTENDS Integers, Sequences, FiniteSets, TLC

VARIABLES
  stores,         \* the heap of Libraries objects: object -> its _store map
  repo,           \* module variable repo: the object get() returns
  handle,         \* an object a caller obtained from get() earlier (0: none)
  librariesPath,  \* module variable librariesPath (NoPath models null)
  lastLoadTime,   \* module variable lastLoadTime
  lastCheckTime,  \* module variable lastCheckTime
  now,            \* the value Date.now() returns
  fs,             \* the directory tree under the library root
  writes,         \* number of changes made to the tree so far
  unreadChange,   \* a .json file was written after the last load read the tree
  last            \* the last call made to the module and its outcome

vars == <<stores, repo, handle, librariesPath, lastLoadTime, lastCheckTime, now, fs, writes, unreadChange, last>>

-----------------------------------------------------------------------------
(* Bounds of the model.                                                    *)

\* largest number of (id, version) entries a store holds through direct addLibrary calls
MaxDocs == 3
\* number of clock advances explored
MaxTicks == 2
\* number of changes other processes make to the tree
MaxWrites == 1
\* depth at which the engine's call stack is exhausted (RangeError)
MaxCallDepth == 3
\* Date.now() when the process starts
StartTime == 1000
\* number of Libraries objects alive at once (the live one, one held by a caller)
NumObjects == 2

CHECK_INTERVAL_MS == 1000

-----------------------------------------------------------------------------
(* Version strings.  A string that semver parses is kept as its parsed     *)
(* fields plus the build tag that makes the text differ; "invalid" is a    *)
(* string new SemVer() rejects; "absent" is the value undefined.           *)

Ident(isNum, v) == [num |-> isNum, v |-> v]

Ver(ma, mi, pa, pre, build) ==
  [kind |-> "semver", major |-> ma, minor |-> mi, patch |-> pa, pre |-> pre, build |-> build]

NoVersion == [kind |-> "absent", major |-> 0, minor |-> 0, patch |-> 0, pre |-> <<>>, build |-> 0]
BadVersion == [kind |-> "invalid", major |-> 0, minor |-> 0, patch |-> 0, pre |-> <<>>, build |-> 0]

beta == Ident(FALSE, 2)

V100 == Ver(1, 0, 0, <<>>, 0)                         \* "1.0.0"
V120 == Ver(1, 2, 0, <<>>, 0)                         \* "1.2.0"
V120b1 == Ver(1, 2, 0, <<>>, 1)                       \* "1.2.0+b1"
V200beta == Ver(2, 0, 0, <<beta>>, 0)                 \* "2.0.0-beta"
V200beta1 == Ver(2, 0, 0, <<beta, Ident(TRUE, 1)>>, 0) \* "2.0.0-beta.1"
V200 == Ver(2, 0, 0, <<>>, 0)                         \* "2.0.0"
V1000 == Ver(10, 0, 0, <<>>, 0)                       \* "10.0.0"

SemVers == {V100, V120, V120b1, V200beta, V200beta1, V200, V1000}

IsNull(version) == version.kind = "absent"

\* new SemVer(version) throws TypeError
SemVerThrows(version) == version.kind # "semver"

Cmp(a, b) == IF a < b THEN -1 ELSE IF a > b THEN 1 ELSE 0

\* semver's compareIdentifiers: numeric identifiers compare as numbers and
\* sort below alphanumeric ones, which compare as text
compareIdentifiers(a, b) ==
  IF a.num /\ b.num THEN Cmp(a.v, b.v)
  ELSE IF a.num THEN -1
  ELSE IF b.num THEN 1
  ELSE Cmp(a.v, b.v)

compareMain(a, b) ==
  IF Cmp(a.major, b.major) # 0 THEN Cmp(a.major, b.major)
  ELSE IF Cmp(a.minor, b.minor) # 0 THEN Cmp(a.minor, b.minor)
  ELSE Cmp(a.patch, b.patch)

RECURSIVE comparePreFrom(_, _, _)
comparePreFrom(p, q, i) ==
  IF i > Len(p) /\ i > Len(q) THEN 0
  ELSE IF i > Len(q) THEN 1
  ELSE IF i > Len(p) THEN -1
  ELSE IF p[i] = q[i] THEN comparePreFrom(p, q, i + 1)
  ELSE compareIdentifiers(p[i], q[i])

\* MUTANT: pre-release tags take no part in the comparison
comparePreIgnored(a, b) == 0

comparePre(a, b) ==
  IF Len(a.pre) > 0 /\ Len(b.pre) = 0 THEN -1
  ELSE IF Len(a.pre) = 0 /\ Len(b.pre) > 0 THEN 1
  ELSE IF Len(a.pre) = 0 /\ Len(b.pre) = 0 THEN 0
  ELSE comparePreFrom(a.pre, b.pre, 1)

\* SemVer.compare: the build tag takes no part
semverCompare(a, b) ==
  IF compareMain(a, b) # 0 THEN compareMain(a, b) ELSE comparePre(a, b)

\* semver.gt(a, b); defined when neither argument makes new SemVer throw
semverGt(a, b) == semverCompare(a, b) > 0

-----------------------------------------------------------------------------
(* Documents: what JSON.parse gives for a file.  id NoId stands for every  *)
(* document the guard of addLibrary rejects (no library, no identifier, no *)
(* id); version NoVersion for a document with no identifier.version.       *)

NoId == "none"
Ids == {"X", "Y"}

Doc(id, version, body) == [id |-> id, version |-> version, body |-> body]

\* JSON.stringify of a document: its text, field by field
JSON_stringify(json) == <<json.id, json.version, json.body>>

-----------------------------------------------------------------------------
(* class Libraries.  A _store is a function from the ids it has to the     *)
(* version map of each, kept as the sequence of its [version, json]        *)
(* entries in insertion order (the order Map.keys() iterates in).          *)

EmptyStore == [id \in {} |-> <<>>]

Has(store, id) == id \in DOMAIN store

VIndex(vmap, version) ==
  IF \E i \in 1..Len(vmap) : vmap[i].version = version
  THEN CHOOSE i \in 1..Len(vmap) : vmap[i].version = version
  ELSE 0

\* Map.set(version, json): an existing key keeps its place
\* MUTANT: every set adds an entry, a key already present included
MapSetAppends(vmap, version, json) ==
  Append(vmap, [version |-> version, json |-> json])

MapSet(vmap, version, json) ==
  IF VIndex(vmap, version) # 0
  THEN [vmap EXCEPT ![VIndex(vmap, version)] = [version |-> version, json |-> json]]
  ELSE Append(vmap, [version |-> version, json |-> json])

VMapOf(store, id) == IF Has(store, id) THEN store[id] ELSE <<>>

\* the warning of line 29 is issued
addLibraryWarns(store, json) ==
  /\ json.id # NoId
  /\ Has(store, json.id)
  /\ VIndex(store[json.id], json.version) # 0
  /\ JSON_stringify(store[json.id][VIndex(store[json.id], json.version)].json)
       # JSON_stringify(json)

\* MUTANT: the document on record is kept when the key exists
addLibraryFirstWins(store, json) ==
  IF json.id = NoId THEN store
  ELSE IF VIndex(VMapOf(store, json.id), json.version) # 0 THEN store
  ELSE [id \in DOMAIN store \cup {json.id} |->
          IF id = json.id THEN MapSet(VMapOf(store, id), json.version, json) ELSE store[id]]

\* MUTANT: the guard also asks for identifier.version
addLibraryNeedsVersion(store, json) ==
  IF json.id = NoId \/ IsNull(json.version) THEN store
  ELSE [id \in DOMAIN store \cup {json.id} |->
          IF id = json.id THEN MapSet(VMapOf(store, id), json.version, json) ELSE store[id]]

\* addLibrary(json): the _store after the call
addLibrary(store, json) ==
  IF json.id = NoId THEN store
  ELSE [id \in DOMAIN store \cup {json.id} |->
          IF id = json.id THEN MapSet(VMapOf(store, id), json.version, json) ELSE store[id]]

\* all(): one Library per entry; the set of the documents they wrap
all(store) == UNION {{store[id][i].json : i \in 1..Len(store[id])} : id \in DOMAIN store}

RECURSIVE SumLen(_, _)
SumLen(store, S) ==
  IF S = {} THEN 0
  ELSE LET x == CHOOSE y \in S : TRUE IN Len(store[x]) + SumLen(store, S \ {x})

\* number of entries of a _store (all().length)
StoreSize(store) == SumLen(store, DOMAIN store)

\* results of resolve and resolveLatest
Found(json) == [kind |-> "doc", json |-> json, err |-> "none"]
Absent == [kind |-> "absent", json |-> Doc(NoId, NoVersion, 0), err |-> "none"]
Thrown(err) == [kind |-> "throw", json |-> Doc(NoId, NoVersion, 0), err |-> err]

\* the loop of resolveLatest over keys i..: the value of latestVersion at the
\* end, or the TypeError of semver.gt
RECURSIVE latestLoop(_, _, _)
latestLoop(vmap, i, latestVersion) ==
  IF i > Len(vmap) THEN [threw |-> FALSE, version |-> latestVersion]
  ELSE IF IsNull(latestVersion) THEN latestLoop(vmap, i + 1, vmap[i].version)
  ELSE IF SemVerThrows(vmap[i].version) \/ SemVerThrows(latestVersion)
       THEN [threw |-> TRUE, version |-> latestVersion]
  ELSE IF semverGt(vmap[i].version, latestVersion)
       THEN latestLoop(vmap, i + 1, vmap[i].version)
  ELSE latestLoop(vmap, i + 1, latestVersion)

\* resolve(id, version) and resolveLatest(id) call each other; depth counts
\* the frames on the call stack
RECURSIVE resolveAt(_, _, _, _)
RECURSIVE resolveLatestAt(_, _, _)

\* MUTANT: a version that is not stored falls back to the latest one
resolveAtFallback(store, id, version, depth) ==
  IF depth > MaxCallDepth THEN Thrown("RangeError")
  ELSE IF IsNull(version) THEN resolveLatestAt(store, id, depth + 1)
  ELSE IF Has(store, id) /\ VIndex(store[id], version) # 0
       THEN Found(store[id][VIndex(store[id], version)].json)
  ELSE resolveLatestAt(store, id, depth + 1)

\* MUTANT: a call without a version is a miss
resolveAtNoDelegation(store, id, version, depth) ==
  IF depth > MaxCallDepth THEN Thrown("RangeError")
  ELSE IF IsNull(version) THEN Absent
  ELSE IF Has(store, id) /\ VIndex(store[id], version) # 0
       THEN Found(store[id][VIndex(store[id], version)].json)
  ELSE Absent

resolveAt(store, id, version, depth) ==
  IF depth > MaxCallDepth THEN Thrown("RangeError")
  ELSE IF IsNull(version) THEN resolveLatestAt(store, id, depth + 1)
  ELSE IF Has(store, id) /\ VIndex(store[id], version) # 0
       THEN Found(store[id][VIndex(store[id], version)].json)
  ELSE Absent

resolveLatestAt(store, id, depth) ==
  IF depth > MaxCallDepth THEN Thrown("RangeError")
  ELSE IF Has(store, id) /\ Len(store[id]) > 0
       THEN LET r == latestLoop(store[id], 1, NoVersion)
            IN IF r.threw THEN Thrown("TypeError")
               ELSE resolveAt(store, id, r.version, depth + 1)
  ELSE Absent

resolve(store, id, version) == resolveAt(store, id, version, 1)
resolveLatest(store, id) == resolveLatestAt(store, id, 1)

-----------------------------------------------------------------------------
(* The directory tree.  An entry is what lstat, stat, readFile and         *)
(* JSON.parse say of it: kind is what lstat reports ("file", "dir", or     *)
(* "symlink" for an entry that is neither), target what a symbolic link    *)
(* points to ("none": a dangling link, on which stat and readFile throw    *)
(* ENOENT), json whether the name ends in .json, ok whether the content    *)
(* parses, doc the parsed document, mtime the modification time.           *)

NoDoc == Doc(NoId, NoVersion, 0)

NoEntry ==
  [kind |-> "none", json |-> FALSE, target |-> "none", ok |-> FALSE, doc |-> NoDoc,
   mtime |-> 0, entries |-> <<>>]

JsonFile(doc) == [NoEntry EXCEPT !.kind = "file", !.json = TRUE, !.target = "file",
                                 !.ok = TRUE, !.doc = doc]
MalformedJsonFile == [NoEntry EXCEPT !.kind = "file", !.json = TRUE, !.target = "file"]
TextFile == [NoEntry EXCEPT !.kind = "file", !.target = "file"]
DanglingLink == [NoEntry EXCEPT !.kind = "symlink", !.json = TRUE]
LinkToFile(doc) == [NoEntry EXCEPT !.kind = "symlink", !.target = "file",
                                   !.ok = TRUE, !.doc = doc]
Directory(mtime, entries) ==
  [NoEntry EXCEPT !.kind = "dir", !.target = "dir", !.mtime = mtime, !.entries = entries]

Present(seq) == SelectSeq(seq, LAMBDA e : e.kind # "none")

\* the tree under the root: <root>/<e1>, <root>/sub/<e2>
Tree(f) ==
  Directory(f.rootM, Present(<<f.e1, Directory(f.subM, Present(<<f.e2>>))>>))

RootPath == "libs"
NoPath == "null"
Paths == {RootPath, "missing", "notes.txt"}

\* fs.existsSync(p) && fs.lstatSync(p).isDirectory(), for the paths load is given
IsFolder(f, p) == p = RootPath

Max(a, b) == IF a >= b THEN a ELSE b

\* fs.readFileSync(file) or JSON.parse throws
ReadThrows(e) == e.target # "file" \/ ~e.ok

LoadResult(store, threw, warns) == [store |-> store, threw |-> threw, warns |-> warns]

\* the loop of load over the entries of one folder, from entry i on; a nested
\* folder is loaded by the recursive call load(file, false)
RECURSIVE loadEntries(_, _, _, _)
loadEntries(store, entries, i, warns) ==
  IF i > Len(entries) THEN LoadResult(store, FALSE, warns)
  ELSE LET e == entries[i] IN
    IF e.kind = "file" /\ ~e.json THEN loadEntries(store, entries, i + 1, warns)
    ELSE IF e.kind = "dir" THEN
      LET r == loadEntries(store, e.entries, 1, warns)
      IN IF r.threw THEN r ELSE loadEntries(r.store, entries, i + 1, r.warns)
    ELSE IF ReadThrows(e) THEN LoadResult(store, TRUE, warns)
    ELSE loadEntries(addLibrary(store, e.doc), entries, i + 1,
                     warns + (IF addLibraryWarns(store, e.doc) THEN 1 ELSE 0))

\* fs.statSync(fullPath) throws
StatThrows(e) == e.kind = "symlink" /\ e.target = "none"

\* getLatestModTime(dir) and its loop over the entries of dir
RECURSIVE getLatestModTime(_)
RECURSIVE scanEntries(_, _, _)

scanEntries(entries, i, latest) ==
  IF i > Len(entries) THEN [threw |-> FALSE, latest |-> latest]
  ELSE LET e == entries[i] IN
    IF StatThrows(e) THEN [threw |-> TRUE, latest |-> latest]
    ELSE IF e.target = "dir" THEN scanEntries(entries, i + 1, Max(latest, getLatestModTime(e)))
    ELSE IF e.json THEN scanEntries(entries, i + 1, Max(latest, e.mtime))
    ELSE scanEntries(entries, i + 1, latest)

getLatestModTime(dir) ==
  LET r == scanEntries(dir.entries, 1, dir.mtime)
  IN IF r.threw THEN 0 ELSE r.latest

-----------------------------------------------------------------------------
(* The module: its variables as one record m, and its exported functions   *)
(* as functions from m (and the tree f, the clock t) to the outcome of the *)
(* call: the module state after it, whether an exception reached the       *)
(* caller, and what the call did.                                          *)

Objects == 1..NumObjects

ModuleState ==
  [stores |-> stores, repo |-> repo, librariesPath |-> librariesPath,
   lastLoadTime |-> lastLoadTime, lastCheckTime |-> lastCheckTime]

Outcome(m, threw, warns, loaded, scanned, reloaded) ==
  [m |-> m, threw |-> threw, warns |-> warns, loaded |-> loaded,
   scanned |-> scanned, reloaded |-> reloaded]

\* get()
get(m) == m.stores[m.repo]

\* new Libraries(): an object no one refers to (h is the object a caller holds)
NewObject(m, h) == IF h = m.repo THEN CHOOSE o \in Objects : o # m.repo ELSE m.repo

\* MUTANT: the live object is kept, documents and all
resetKeepsStore(m, h) == m

\* MUTANT: the live object is emptied in place
resetInPlace(m, h) == [m EXCEPT !.stores[m.repo] = EmptyStore]

\* reset()
reset(m, h) ==
  [m EXCEPT !.repo = NewObject(m, h), !.stores[NewObject(m, h)] = EmptyStore]

\* MUTANT: the path and the time are recorded before the path is validated
loadTracksFirst(m, f, t, pathToFolder) ==
  IF ~IsFolder(f, pathToFolder)
  THEN Outcome([m EXCEPT !.librariesPath = pathToFolder, !.lastLoadTime = t],
               FALSE, 0, FALSE, FALSE, FALSE)
  ELSE LET r == loadEntries(get(m), Tree(f).entries, 1, 0)
       IN Outcome([m EXCEPT !.librariesPath = pathToFolder, !.lastLoadTime = t,
                            !.stores[m.repo] = r.store],
                  r.threw, r.warns, TRUE, FALSE, FALSE)

\* MUTANT: the live store is emptied before the folder is read
loadClearsFirst(m, f, t, pathToFolder) ==
  IF ~IsFolder(f, pathToFolder) THEN Outcome(m, FALSE, 0, FALSE, FALSE, FALSE)
  ELSE LET r == loadEntries(EmptyStore, Tree(f).entries, 1, 0)
       IN Outcome([m EXCEPT !.librariesPath = pathToFolder, !.lastLoadTime = t,
                            !.stores[m.repo] = r.store],
                  r.threw, r.warns, TRUE, FALSE, FALSE)

\* load(pathToFolder) with isTopLevel = true, at time t on tree f
load(m, f, t, pathToFolder) ==
  IF ~IsFolder(f, pathToFolder) THEN Outcome(m, FALSE, 0, FALSE, FALSE, FALSE)
  ELSE LET r == loadEntries(get(m), Tree(f).entries, 1, 0)
       IN Outcome([m EXCEPT !.librariesPath = pathToFolder, !.lastLoadTime = t,
                            !.stores[m.repo] = r.store],
                  r.threw, r.warns, TRUE, FALSE, FALSE)

\* MUTANT: the time of the check is not recorded
checkWithoutStamp(m, f, t, h) ==
  IF m.librariesPath = NoPath THEN Outcome(m, FALSE, 0, FALSE, FALSE, FALSE)
  ELSE IF t - m.lastCheckTime < CHECK_INTERVAL_MS THEN Outcome(m, FALSE, 0, FALSE, FALSE, FALSE)
  ELSE IF getLatestModTime(Tree(f)) > m.lastLoadTime
       THEN LET r == load(reset(m, h), f, t, m.librariesPath)
            IN Outcome(r.m, r.threw, r.warns, r.loaded, TRUE, TRUE)
       ELSE Outcome(m, FALSE, 0, FALSE, TRUE, FALSE)

\* checkAndReloadIfNeeded() at time t on tree f
checkAndReloadIfNeeded(m, f, t, h) ==
  IF m.librariesPath = NoPath THEN Outcome(m, FALSE, 0, FALSE, FALSE, FALSE)
  ELSE IF t - m.lastCheckTime < CHECK_INTERVAL_MS THEN Outcome(m, FALSE, 0, FALSE, FALSE, FALSE)
  ELSE LET m1 == [m EXCEPT !.lastCheckTime = t]
           latestModTime == getLatestModTime(Tree(f))
       IN IF latestModTime > m1.lastLoadTime
          THEN LET r == load(reset(m1, h), f, t, m1.librariesPath)
               IN Outcome(r.m, r.threw, r.warns, r.loaded, TRUE, TRUE)
          ELSE Outcome(m1, FALSE, 0, FALSE, TRUE, FALSE)

-----------------------------------------------------------------------------
(* The state machine.                                                      *)

NoCall ==
  [op |-> "none", path |-> NoPath, json |-> NoDoc, id |-> NoId, version |-> NoVersion,
   threw |-> FALSE, warns |-> 0, loaded |-> FALSE, scanned |-> FALSE, reloaded |-> FALSE,
   result |-> Absent]

DocA == Doc("X", V100, 1)
DocA2 == Doc("X", V100, 2)
DocB == Doc("X", V200, 1)
DocC == Doc("Y", V100, 1)

\* what another process may put at a place of the tree
EntryValues(slot) ==
  IF slot = 1 THEN {JsonFile(DocA2), DanglingLink, NoEntry}
  ELSE {JsonFile(DocA2), MalformedJsonFile, TextFile, DanglingLink, LinkToFile(DocC), NoEntry}

\* documents handed to addLibrary directly
StoreDocs ==
  {Doc("X", v, 1) : v \in SemVers \cup {BadVersion, NoVersion}}
    \cup {Doc("X", V100, 2), Doc("Y", V100, 1), Doc(NoId, V100, 1), Doc(NoId, NoVersion, 1)}

\* version arguments of resolve
QueryVersions == {V100, V200, BadVersion, NoVersion}

InitialTree(entry2) ==
  [rootM |-> StartTime - 1, subM |-> StartTime - 1,
   e1 |-> [JsonFile(DocA) EXCEPT !.mtime = StartTime - 1],
   e2 |-> [entry2 EXCEPT !.mtime = StartTime - 1]]

InitModule ==
  /\ stores = [o \in Objects |-> EmptyStore]
  /\ repo = 1
  /\ handle = 0
  /\ librariesPath = NoPath
  /\ lastLoadTime = 0
  /\ lastCheckTime = 0
  /\ now = StartTime
  /\ writes = 0
  /\ unreadChange = FALSE
  /\ last = NoCall

Init == InitModule /\ fs = InitialTree(JsonFile(DocB))

\* the tree may hold a dangling link when the process starts
InitAnyTree == InitModule /\ \E e \in {JsonFile(DocB), DanglingLink} : fs = InitialTree(e)

\* objects neither live nor held are collected
Collect(st, r, h) == [o \in Objects |-> IF o = r \/ o = h THEN st[o] ELSE EmptyStore]

SetModule(m) ==
  /\ stores' = Collect(m.stores, m.repo, handle)
  /\ repo' = m.repo
  /\ librariesPath' = m.librariesPath
  /\ lastLoadTime' = m.lastLoadTime
  /\ lastCheckTime' = m.lastCheckTime

Returned(op, o) ==
  [NoCall EXCEPT !.op = op, !.threw = o.threw, !.warns = o.warns, !.loaded = o.loaded,
                 !.scanned = o.scanned, !.reloaded = o.reloaded]

LoadCall(p) ==
  LET o == load(ModuleState, fs, now, p)
  IN /\ SetModule(o.m)
     /\ last' = [Returned("load", o) EXCEPT !.path = p]
     /\ unreadChange' = (unreadChange /\ ~o.loaded)
     /\ UNCHANGED <<handle, now, fs, writes>>

ResetCall ==
  /\ SetModule(reset(ModuleState, handle))
  /\ last' = [NoCall EXCEPT !.op = "reset"]
  /\ UNCHANGED <<handle, now, fs, writes, unreadChange>>

CheckCall ==
  LET o == checkAndReloadIfNeeded(ModuleState, fs, now, handle)
  IN /\ SetModule(o.m)
     /\ last' = Returned("check", o)
     /\ unreadChange' = (unreadChange /\ ~o.loaded)
     /\ UNCHANGED <<handle, now, fs, writes>>

\* a caller keeps the object get() returns
GetCall ==
  /\ handle # repo
  /\ handle' = repo
  /\ stores' = Collect(stores, repo, repo)
  /\ last' = [NoCall EXCEPT !.op = "get"]
  /\ UNCHANGED <<repo, librariesPath, lastLoadTime, lastCheckTime, now, fs, writes, unreadChange>>

AddLibraryCall(json) ==
  /\ \/ StoreSize(get(ModuleState)) < MaxDocs
     \/ VIndex(VMapOf(get(ModuleState), json.id), json.version) # 0
  /\ stores' = [stores EXCEPT ![repo] = addLibrary(stores[repo], json)]
  /\ last' = [NoCall EXCEPT !.op = "addLibrary", !.json = json,
                            !.warns = IF addLibraryWarns(stores[repo], json) THEN 1 ELSE 0]
  /\ UNCHANGED <<repo, handle, librariesPath, lastLoadTime, lastCheckTime, now, fs, writes, unreadChange>>

ResolveCall(id, version) ==
  LET r == resolve(get(ModuleState), id, version)
  IN /\ last' = [NoCall EXCEPT !.op = "resolve", !.id = id, !.version = version,
                               !.result = r, !.threw = (r.kind = "throw")]
     /\ UNCHANGED <<stores, repo, handle, librariesPath, lastLoadTime, lastCheckTime,
                    now, fs, writes, unreadChange>>

ResolveLatestCall(id) ==
  LET r == resolveLatest(get(ModuleState), id)
  IN /\ last' = [NoCall EXCEPT !.op = "resolveLatest", !.id = id,
                               !.result = r, !.threw = (r.kind = "throw")]
     /\ UNCHANGED <<stores, repo, handle, librariesPath, lastLoadTime, lastCheckTime,
                    now, fs, writes, unreadChange>>

TickCount == ((now - StartTime) \div CHECK_INTERVAL_MS) + ((now - StartTime) % CHECK_INTERVAL_MS)

\* the clock advances by a millisecond or by a whole check interval
Tick(d) ==
  /\ TickCount < MaxTicks
  /\ now' = now + d
  /\ last' = [NoCall EXCEPT !.op = "env"]
  /\ UNCHANGED <<stores, repo, handle, librariesPath, lastLoadTime, lastCheckTime, fs, writes, unreadChange>>

InPlace(old, new) == old.kind = "file" /\ new.kind = "file" /\ old.json = new.json

\* another process creates, rewrites, replaces or deletes an entry of the
\* root (slot 1) or of <root>/sub (slot 2)
FsWrite(slot, value) ==
  /\ writes < MaxWrites
  /\ LET old == IF slot = 1 THEN fs.e1 ELSE fs.e2
         new == IF value.kind = "none" THEN value ELSE [value EXCEPT !.mtime = now]
     IN /\ old.kind # "none" \/ new.kind # "none"
        /\ fs' = IF slot = 1
                 THEN [fs EXCEPT !.e1 = new,
                                 !.rootM = IF InPlace(old, new) THEN @ ELSE now]
                 ELSE [fs EXCEPT !.e2 = new,
                                 !.subM = IF InPlace(old, new) THEN @ ELSE now]
  /\ writes' = writes + 1
  /\ unreadChange' = (unreadChange \/ (value.kind = "file" /\ value.json))
  /\ last' = [NoCall EXCEPT !.op = "env"]
  /\ UNCHANGED <<stores, repo, handle, librariesPath, lastLoadTime, lastCheckTime, now>>

\* the loader and the monitor, on a tree other processes change
Next ==
  \/ \E p \in Paths : LoadCall(p)
  \/ ResetCall
  \/ CheckCall
  \/ \E d \in {1, CHECK_INTERVAL_MS} : Tick(d)
  \/ \E slot \in 1..2 : \E value \in EntryValues(slot) : FsWrite(slot, value)

Spec == Init /\ [][Next]_vars

\* the same, with callers that keep the object get() gave them
NextGet == Next \/ GetCall

SpecGet == InitAnyTree /\ [][NextGet]_vars

\* the store alone: documents added and resolved through get()
NextStore ==
  \/ \E json \in StoreDocs : AddLibraryCall(json)
  \/ \E id \in Ids : \E version \in QueryVersions : ResolveCall(id, version)
  \/ \E id \in Ids : ResolveLatestCall(id)
  \/ ResetCall

SpecStore == Init /\ [][NextStore]_vars

\* callers that load, reset, and keep and fill the object get() gave them
NextHeld ==
  \/ \E p \in Paths : LoadCall(p)
  \/ ResetCall
  \/ GetCall
  \/ \E json \in {DocA2, DocC} : AddLibraryCall(json)
  \/ \E d \in {1, CHECK_INTERVAL_MS} : Tick(d)

SpecHeld == Init /\ [][NextHeld]_vars

-----------------------------------------------------------------------------
(* Properties.                                                             *)

\* the store get() returns
Live == stores[repo]

KeyOnRecord(store, json) ==
  json.id # NoId /\ VIndex(VMapOf(store, json.id), json.version) # 0

OnRecord(store, json) == store[json.id][VIndex(store[json.id], json.version)].json

CountKey(store, id, version) ==
  Cardinality({i \in 1..Len(VMapOf(store, id)) : VMapOf(store, id)[i].version = version})

\* the step is addLibrary(D2) on a store that holds a different D1 under D2's key
ConflictingAdd ==
  /\ last'.op = "addLibrary"
  /\ KeyOnRecord(Live, last'.json)
  /\ OnRecord(Live, last'.json) # last'.json

RECURSIVE ParsedDocs(_)
ParsedDocs(entries) ==
  IF entries = <<>> THEN <<>>
  ELSE LET e == Head(entries)
           rest == ParsedDocs(Tail(entries))
       IN IF e.kind = "dir" THEN ParsedDocs(e.entries) \o rest
          ELSE IF e.kind = "file" /\ ~e.json THEN rest
          ELSE <<e.doc>> \o rest

\* what a complete load of tree f into an empty store holds: for each
\* (id, version) of a parsed document with an id, the last such document
TreeDocs(f) ==
  LET ds == ParsedDocs(Tree(f).entries)
  IN {ds[i] : i \in {k \in 1..Len(ds) :
                       /\ ds[k].id # NoId
                       /\ \A j \in (k + 1)..Len(ds) :
                            ds[j].id # ds[k].id \/ ds[j].version # ds[k].version}}

\* a reload was started and threw
FailedReload == last'.op = "check" /\ last'.reloaded /\ last'.threw

\* C2: a reload that fails leaves the store get() returns with the contents
\* it had before the call.
C2_FailedReloadKeepsStore == [][FailedReload => Live' = Live]_vars

\* C3: after a call of checkAndReloadIfNeeded, whether it returned or threw,
\* get() returns the store of before the call or the store of a complete load
\* of the tree, and the object a caller holds from an earlier get() is as it
\* was.
C3_OldOrNewStore ==
  [][last'.op = "check" =>
       /\ \/ Live' = Live
          \/ LET r == loadEntries(EmptyStore, Tree(fs).entries, 1, 0)
             IN ~r.threw /\ Live' = r.store
       /\ handle # 0 => stores'[handle] = stores[handle]]_vars

\* C4: no call ends with an exception reaching the caller.
C4_NoExceptionEscapes == ~last.threw

\* C5: after a reload that completes, all() is exactly what loading the
\* current tree into an empty store gives; nothing of the prior tree stays.
C5_ReloadReflectsTree ==
  (last.op = "check" /\ last.reloaded /\ ~last.threw) => all(Live) = TreeDocs(fs)

C5_Witness ==
  /\ last.op = "check" /\ last.reloaded /\ ~last.threw
  /\ fs.e1.kind = "none"
  /\ all(Live) = {DocB}

\* C6: checkAndReloadIfNeeded does nothing (no scan; store, lastLoadTime and
\* lastCheckTime as before) when no root path is registered or less than
\* CHECK_INTERVAL_MS has passed since lastCheckTime; a call that scans sets
\* lastCheckTime to its own time, and nothing else changes lastCheckTime, so
\* of two calls less than an interval apart at most one scans.
C6_Throttle ==
  [][/\ (last'.op = "check" /\ (librariesPath = NoPath
                                  \/ now - lastCheckTime < CHECK_INTERVAL_MS))
          => (~last'.scanned /\ UNCHANGED <<stores, repo, librariesPath,
                                             lastLoadTime, lastCheckTime>>)
     /\ (last'.op = "check" /\ last'.scanned)
          => (now - lastCheckTime >= CHECK_INTERVAL_MS /\ lastCheckTime' = now)
     /\ lastCheckTime' # lastCheckTime => (last'.op = "check" /\ last'.scanned)]_vars

C6_Witness ==
  /\ last.op = "check" /\ ~last.scanned
  /\ librariesPath # NoPath
  /\ lastCheckTime >= StartTime
  /\ now > lastCheckTime
  /\ now - lastCheckTime < CHECK_INTERVAL_MS
  /\ unreadChange

\* C7: when a .json file was added or modified after the load behind the live
\* store read the tree, the next call of checkAndReloadIfNeeded that the
\* throttle lets through rebuilds the store, and all() then shows the change.
C7_ChangeIsReloaded ==
  [][(last'.op = "check" /\ last'.scanned /\ unreadChange)
       => (last'.reloaded /\ all(Live') = TreeDocs(fs))]_vars

\* fs.statSync throws on some entry of the tree
RECURSIVE AnyStatThrows(_)
AnyStatThrows(entries) ==
  \E i \in 1..Len(entries) :
    StatThrows(entries[i]) \/ (entries[i].kind = "dir" /\ AnyStatThrows(entries[i].entries))

\* C8: when the scan meets an I/O error anywhere in the tree, the check is
\* abandoned: no reload, store and lastLoadTime as before, no exception.
C8_ScanErrorAbandonsCheck ==
  [][(last'.op = "check" /\ last'.scanned /\ AnyStatThrows(Tree(fs).entries))
       => (~last'.reloaded /\ ~last'.threw /\ Live' = Live
           /\ lastLoadTime' = lastLoadTime)]_vars

\* semantic-version precedence (semver.org, item 11): a has lower precedence than b
RECURSIVE PreLower(_, _)
PreLower(p, q) ==
  IF p = <<>> THEN q # <<>>
  ELSE IF q = <<>> THEN FALSE
  ELSE IF Head(p) = Head(q) THEN PreLower(Tail(p), Tail(q))
  ELSE IF Head(p).num # Head(q).num THEN Head(p).num
  ELSE Head(p).v < Head(q).v

Lower(a, b) ==
  \/ a.major < b.major
  \/ a.major = b.major /\ a.minor < b.minor
  \/ a.major = b.major /\ a.minor = b.minor /\ a.patch < b.patch
  \/ /\ a.major = b.major /\ a.minor = b.minor /\ a.patch = b.patch
     /\ \/ a.pre # <<>> /\ b.pre = <<>>
        \/ a.pre # <<>> /\ b.pre # <<>> /\ PreLower(a.pre, b.pre)

AllSemVer(vmap) == \A i \in 1..Len(vmap) : vmap[i].version.kind = "semver"

IsMaximal(vmap, i) == \A j \in 1..Len(vmap) : ~Lower(vmap[i].version, vmap[j].version)

FirstMaximal(vmap) ==
  CHOOSE i \in 1..Len(vmap) :
    IsMaximal(vmap, i) /\ \A j \in 1..(i - 1) : ~IsMaximal(vmap, j)

\* the orders in which the entries of a version map can have been inserted
Arrangements(vmap) ==
  {[i \in 1..Len(vmap) |-> vmap[f[i]]] :
     f \in {g \in [1..Len(vmap) -> 1..Len(vmap)] :
              \A i, j \in 1..Len(vmap) : i # j => g[i] # g[j]}}

\* C9 (as amended): for an id whose stored versions are all well-formed,
\* resolveLatest returns a document of maximal precedence, and of several
\* versions of that same precedence (they differ in build metadata only) the
\* one inserted first; for an unknown id the result is absent.
C9_ResolveLatestMaximal ==
  \A id \in Ids :
    IF Has(Live, id)
    THEN AllSemVer(Live[id]) =>
           resolveLatest(Live, id) = Found(Live[id][FirstMaximal(Live[id])].json)
    ELSE resolveLatest(Live, id) = Absent

\* C9 (as stated): the document returned is the one of maximal precedence
\* whatever the order of insertion.
C9_OrderIndependent ==
  \A id \in Ids :
    (Has(Live, id) /\ AllSemVer(Live[id])) =>
      \A p \in Arrangements(Live[id]) :
        /\ resolveLatest([Live EXCEPT ![id] = p], id) = resolveLatest(Live, id)
        /\ resolveLatest(Live, id).kind = "doc"
        /\ \A i \in 1..Len(Live[id]) :
             ~Lower(resolveLatest(Live, id).json.version, Live[id][i].version)

C9_Witness ==
  /\ last.op = "resolveLatest" /\ last.id = "X"
  /\ Has(Live, "X") /\ Len(Live["X"]) = 3
  /\ Live["X"][1].version = V200
  /\ Live["X"][2].version = V100
  /\ Live["X"][3].version = V200beta
  /\ last.result = Found(Doc("X", V200, 1))

\* no query gives a document that has no version
NoVersionlessResult(store) ==
  /\ \A id \in Ids : resolveLatest(store, id).kind = "doc"
                       => ~IsNull(resolveLatest(store, id).json.version)
  /\ \A id \in Ids : \A v \in QueryVersions :
       resolve(store, id, v).kind = "doc" => ~IsNull(resolve(store, id, v).json.version)

\* C10 (as amended): addLibrary ignores a document without identifier.id (the
\* store is unchanged); a document with an id and no identifier.version is
\* stored, under the absent version, and appears in all(), yet resolve and
\* resolveLatest never return it.
C10_OnlyIdRequired ==
  [][last'.op = "addLibrary" =>
       /\ last'.json.id = NoId => Live' = Live
       /\ (last'.json.id # NoId /\ IsNull(last'.json.version)) => last'.json \in all(Live')
       /\ NoVersionlessResult(Live')]_vars

\* C10 (as stated): a document without id or without version leaves the
\* store unchanged.
C10_IdAndVersionRequired ==
  [][(last'.op = "addLibrary" /\ (last'.json.id = NoId \/ IsNull(last'.json.version)))
       => Live' = Live]_vars

C10_Witness ==
  /\ last.op = "addLibrary"
  /\ last.json = Doc("X", NoVersion, 1)
  /\ last.json \in all(Live)
  /\ Len(Live["X"]) = 2

\* C11: every call of resolve and of resolveLatest comes back with a document
\* or with an absent result, whatever addLibrary put in the store.
C11_QueriesReturn ==
  last.op \in {"resolve", "resolveLatest"} => last.result.kind \in {"doc", "absent"}

\* the documents of the entries of a tree that are not directories and whose
\* name ends in .json
RECURSIVE JsonNamedDocs(_)
JsonNamedDocs(entries) ==
  UNION {IF entries[i].kind = "dir" THEN JsonNamedDocs(entries[i].entries)
         ELSE IF entries[i].json THEN {entries[i].doc}
         ELSE {} : i \in 1..Len(entries)}

\* no two of the documents are of the same identifier and version
DistinctKeys(docs) ==
  \A d1 \in docs : \A d2 \in docs :
    (d1.id = d2.id /\ d1.version = d2.version) => d1 = d2

\* C12: load hands to addLibrary the .json-named entries that are not
\* directories and no other entry, so a complete load into an empty store
\* holds the documents of those entries and nothing else.
C12_OnlyJsonNamesParsed ==
  [][(/\ last'.op = "load" /\ last'.loaded /\ ~last'.threw
      /\ Live = EmptyStore
      /\ DistinctKeys(JsonNamedDocs(Tree(fs).entries)))
       => all(Live') = JsonNamedDocs(Tree(fs).entries)]_vars

\* the places of version in the version map of id
Hits(store, id, version) ==
  {i \in 1..Len(VMapOf(store, id)) : VMapOf(store, id)[i].version = version}

\* C13: resolve(id, version) with a version given returns the document stored
\* under exactly (id, version) when there is one and an absent result
\* otherwise, throws nothing and leaves the store as it was.
C13_ExactResolve ==
  [][(last'.op = "resolve" /\ ~IsNull(last'.version)) =>
       /\ ~last'.threw
       /\ stores' = stores /\ repo' = repo
       /\ IF Hits(Live, last'.id, last'.version) = {}
          THEN last'.result.kind = "absent"
          ELSE /\ last'.result.kind = "doc"
               /\ \E i \in Hits(Live, last'.id, last'.version) :
                    last'.result.json = Live[last'.id][i].json]_vars

C13_Witness ==
  /\ last.op = "resolve" /\ last.id = "X" /\ last.version = V200
  /\ Has(Live, "X") /\ Len(Live["X"]) = 2
  /\ Hits(Live, "X", V200) = {}
  /\ last.result.kind = "absent"

\* C16: resolve(id, null) gives what resolveLatest(id) gives, for every id
\* and every store.
C16_NullVersionIsLatest ==
  /\ \A id \in Ids : resolve(Live, id, NoVersion) = resolveLatest(Live, id)
  /\ (last.op = "resolve" /\ IsNull(last.version)) => last.result = resolveLatest(Live, last.id)

C16_Witness ==
  /\ last.op = "resolve" /\ last.id = "X" /\ IsNull(last.version)
  /\ Has(Live, "X") /\ Len(Live["X"]) = 3
  /\ Live["X"][1].version = V200
  /\ last.result = Found(Doc("X", V200, 1))

\* C14: load of a path that does not exist or is not a directory throws
\* nothing and loads nothing: the store, the registered root path and
\* lastLoadTime stay as they were.
C14_InvalidPathLoadsNothing ==
  [][(last'.op = "load" /\ ~IsFolder(fs, last'.path)) =>
       /\ ~last'.threw /\ ~last'.loaded
       /\ stores' = stores /\ repo' = repo
       /\ librariesPath' = librariesPath
       /\ lastLoadTime' = lastLoadTime]_vars

C14_Witness ==
  /\ last.op = "load" /\ last.path = "missing"
  /\ librariesPath = RootPath
  /\ lastLoadTime > 0 /\ lastLoadTime < now
  /\ Live # EmptyStore

\* C15: a second load(path) straight after a load(path), the tree unchanged
\* in between, leaves the store as the first one left it.
C15_LoadIdempotent ==
  [][(/\ last.op = "load" /\ last.loaded
      /\ last'.op = "load" /\ last'.path = last.path)
       => /\ Live' = Live
          /\ all(Live') = all(Live)
          /\ StoreSize(Live') = StoreSize(Live)]_vars

\* a load met, for both conflicting documents of the tree, a different
\* document on record: the tree had been loaded into this store before
C15_Witness ==
  /\ last.op = "load" /\ last.loaded /\ ~last.threw
  /\ last.warns = 2
  /\ fs.e2.kind = "file" /\ fs.e2.json /\ fs.e2.doc = DocA2
  /\ DocA2 \in all(Live)

\* C17: lastLoadTime advances only when a load runs to completion; a load
\* that fails part-way leaves it at its previous value.
C17_FailedLoadKeepsLoadTime ==
  [][(last'.op \in {"load", "check"} /\ last'.threw)
       => lastLoadTime' = lastLoadTime]_vars

\* C18: the root path goes from unset to set only on a load that succeeds,
\* and once set it is never unset again.
C18_LoadedOnlyOnSuccess ==
  /\ [][(librariesPath = NoPath /\ librariesPath' # NoPath)
          => (last'.op = "load" /\ last'.loaded /\ ~last'.threw)]_vars
  /\ [][librariesPath # NoPath => librariesPath' # NoPath]_vars

\* the (id, version) keys of a store
Keys(store) ==
  UNION {{<<id, store[id][i].version>> : i \in 1..Len(store[id])} : id \in DOMAIN store}

\* C20: a direct load(path) never removes an entry: every (id, version) key
\* the live store held before the call it holds after it, whether the call
\* completes, returns early or fails part-way.
C20_LoadKeepsKeys ==
  [][last'.op = "load" => (repo' = repo /\ Keys(Live) \subseteq Keys(Live'))]_vars

C20_Witness ==
  /\ last.op = "load" /\ last.loaded
  /\ fs.e2.kind = "none"
  /\ <<"X", V200>> \in Keys(Live)
  /\ <<"X", V100>> \in Keys(Live)

\* C19: reset() publishes an empty store, leaves the registered root path,
\* lastLoadTime and lastCheckTime as they were, and leaves the contents of a
\* store object a caller got from get() before the reset as they were.
C19_ResetFrame ==
  [][last'.op = "reset" =>
       /\ Live' = EmptyStore /\ all(Live') = {}
       /\ librariesPath' = librariesPath
       /\ lastLoadTime' = lastLoadTime
       /\ lastCheckTime' = lastCheckTime
       /\ handle' = handle
       /\ handle # 0 => stores'[handle] = stores[handle]]_vars

C19_Witness ==
  /\ last.op = "reset"
  /\ handle # 0 /\ handle # repo
  /\ all(stores[handle]) = {DocA, DocB}
  /\ Live = EmptyStore
  /\ librariesPath = RootPath /\ lastLoadTime > 0

====
